---- MODULE Spec2Model ----
(***************************************************************************)
(* A model of DNS-Relay.go: the DNS wire codec (header, question, answer   *)
(* record) and the relay loop DNSRelay with its three paths (local answer, *)
(* negative answer, forward to the upstream resolver).                     *)
(*                                                                         *)
(* Representation.  A Go string is its sequence of bytes.  A Go []byte     *)
(* that was made zero-filled and then read into is the record              *)
(* [len, bytes]: `bytes' are the octets read and every octet from          *)
(* Len(bytes) up to len is zero; a []byte literal is the same record with  *)
(* len = Len(bytes).  Indices into a slice are 0-based as in the source.   *)
(* An index or slice bound outside a slice is a Go run-time panic, which   *)
(* ends the process: operators that can panic return a record whose        *)
(* `panic' field tells so.                                                  *)
(***************************************************************************)
EXTENDS Integers, Sequences, FiniteSets, TLC

\* ------------------------------------------------------------------ bounds

\* Requests the relay loop reads in one run.
MaxRequests == 2
\* Labels of a question name, and octets of one label, in the codec inputs.
MaxLabels == 2
MaxLabelLen == 2
\* Dot-separated parts of an address string in the codec inputs.
MaxParts == 5

\* ------------------------------------------------------- program constants

\* buf := make([]byte, 512): the request buffer.
RequestBufLen == 512
\* resp = make([]byte, 256): the upstream reply buffer.
ReplyBufLen == 256

\* ------------------------------------------------------------ bytes, words

Min(a, b) == IF a < b THEN a ELSE b

\* binary.BigEndian.PutUint16 / PutUint32 and Uint16.
PutUint16(v) == << (v \div 256) % 256, v % 256 >>
PutUint32(v) == << (v \div 16777216) % 256, (v \div 65536) % 256,
                   (v \div 256) % 256, v % 256 >>
Uint16(hi, lo) == hi * 256 + lo

\* make([]byte, n).
make(n) == [len |-> n, bytes |-> << >>]
\* A []byte holding exactly the octets s.
FromBytes(s) == [len |-> Len(s), bytes |-> s]
\* conn.Read(b) / ReadFrom(b) of one datagram: at most len(b) octets are
\* stored, the rest of the datagram is discarded, the rest of b is untouched.
ReadInto(b, dgram) == [len |-> b.len,
                       bytes |-> SubSeq(dgram, 1, Min(Len(dgram), b.len))]
\* b[i], for 0 <= i < len(b).
At(b, i) == IF i < Len(b.bytes) THEN b.bytes[i + 1] ELSE 0
\* b[lo:], for lo <= len(b).
SliceFrom(b, lo) == [len |-> b.len - lo,
                     bytes |-> SubSeq(b.bytes, lo + 1, Len(b.bytes))]
\* The octets of b[lo:hi], for lo <= hi <= len(b).
Octets(b, lo, hi) == [k \in 1..(hi - lo) |-> At(b, lo + k - 1)]

\* The outcome of an operation that panicked.
PANIC == [panic |-> TRUE]

\* -------------------------------------------------------------- the parsers

\* a & b and a >> k on unsigned words, and the conversion uint8(v).
RECURSIVE BitAnd(_, _)
BitAnd(a, b) ==
    IF a = 0 \/ b = 0 THEN 0
    ELSE (a % 2) * (b % 2) + 2 * BitAnd(a \div 2, b \div 2)

ShiftRight(v, k) == v \div (2 ^ k)

Uint8(v) == v % 256

\* parseFlags with the Opcode mask one bit short (0b0011100000000000).
parseFlags_ShortOpcodeMask(msg) ==
    [QR     |-> Uint8(ShiftRight(BitAnd(msg.FLAGS, 32768), 15)),
     Opcode |-> Uint8(ShiftRight(BitAnd(msg.FLAGS, 14336), 11)),
     AA     |-> Uint8(ShiftRight(BitAnd(msg.FLAGS, 1024), 10)),
     TC     |-> Uint8(ShiftRight(BitAnd(msg.FLAGS, 512), 9)),
     RD     |-> Uint8(ShiftRight(BitAnd(msg.FLAGS, 256), 8)),
     RA     |-> Uint8(ShiftRight(BitAnd(msg.FLAGS, 128), 7)),
     Z      |-> Uint8(ShiftRight(BitAnd(msg.FLAGS, 64), 6)),
     AD     |-> Uint8(ShiftRight(BitAnd(msg.FLAGS, 32), 5)),
     CD     |-> Uint8(ShiftRight(BitAnd(msg.FLAGS, 16), 4)),
     RCODE  |-> Uint8(BitAnd(msg.FLAGS, 15))]

\* DNSMsgHdr.parseFlags: each field is FLAGS masked and shifted down.
parseFlags(msg) ==
    [QR     |-> Uint8(ShiftRight(BitAnd(msg.FLAGS, 32768), 15)),
     Opcode |-> Uint8(ShiftRight(BitAnd(msg.FLAGS, 30720), 11)),
     AA     |-> Uint8(ShiftRight(BitAnd(msg.FLAGS, 1024), 10)),
     TC     |-> Uint8(ShiftRight(BitAnd(msg.FLAGS, 512), 9)),
     RD     |-> Uint8(ShiftRight(BitAnd(msg.FLAGS, 256), 8)),
     RA     |-> Uint8(ShiftRight(BitAnd(msg.FLAGS, 128), 7)),
     Z      |-> Uint8(ShiftRight(BitAnd(msg.FLAGS, 64), 6)),
     AD     |-> Uint8(ShiftRight(BitAnd(msg.FLAGS, 32), 5)),
     CD     |-> Uint8(ShiftRight(BitAnd(msg.FLAGS, 16), 4)),
     RCODE  |-> Uint8(BitAnd(msg.FLAGS, 15))]

\* parseDNSHdr: six big-endian 16-bit fields at fixed positions.
parseDNSHdr(msg) ==
    [ID      |-> Uint16(At(msg, 0), At(msg, 1)),
     FLAGS   |-> Uint16(At(msg, 2), At(msg, 3)),
     QDCOUNT |-> Uint16(At(msg, 4), At(msg, 5)),
     ANCOUNT |-> Uint16(At(msg, 6), At(msg, 7)),
     NSCOUNT |-> Uint16(At(msg, 8), At(msg, 9)),
     ARCOUNT |-> Uint16(At(msg, 10), At(msg, 11))]

\* The first index in lo..hi at which msg holds a zero octet, or -1: the
\* lower half of the range is searched before the upper, which finds the
\* index a left-to-right scan finds.
RECURSIVE FirstZero(_, _, _)
FirstZero(msg, lo, hi) ==
    IF lo > hi THEN -1
    ELSE IF lo = hi THEN (IF At(msg, lo) = 0 THEN lo ELSE -1)
    ELSE LET mid  == (lo + hi) \div 2
             left == FirstZero(msg, lo, mid)
         IN  IF left # -1 THEN left ELSE FirstZero(msg, mid + 1, hi)

\* The loop `for msg[i] != 0 { i = i + 1 }' of parseDNSQst: the index of
\* the first zero octet at or after i, or -1 when the index runs off the
\* slice (a panic).
ScanZero(msg, i) == FirstZero(msg, i, msg.len - 1)

\* parseDNSQst: QNAME is everything up to and including the first zero
\* octet, QTYPE and QCLASS the four octets after it; length is i + 5.
parseDNSQst(msg) ==
    LET i == ScanZero(msg, 0) IN
    IF i = -1 \/ i + 5 > msg.len THEN PANIC
    ELSE [panic  |-> FALSE,
          qst    |-> [QNAME  |-> Octets(msg, 0, i + 1),
                      QTYPE  |-> Uint16(At(msg, i + 1), At(msg, i + 2)),
                      QCLASS |-> Uint16(At(msg, i + 3), At(msg, i + 4))],
          length |-> (i + 5) % 65536]

\* parseDNSRequest: header from msg[0:12], question from msg[12:].
parseDNSRequest(msg) ==
    IF msg.len < 12 THEN PANIC
    ELSE LET q == parseDNSQst(SliceFrom(msg, 12)) IN
         IF q.panic THEN PANIC
         ELSE [panic  |-> FALSE,
               hdr    |-> parseDNSHdr(msg),
               qst    |-> q.qst,
               length |-> (q.length + 12) % 65536]

\* string(b) for a byte b: the UTF-8 encoding of the code point b.
ByteToString(b) ==
    IF b < 128 THEN << b >> ELSE << 192 + (b \div 64), 128 + (b % 64) >>

RECURSIVE BytesToString(_)
BytesToString(s) ==
    IF s = << >> THEN << >>
    ELSE ByteToString(Head(s)) \o BytesToString(Tail(s))

\* strings.Trim(s, "."): every leading and trailing '.' (46) removed.
RECURSIVE TrimLeft(_)
TrimLeft(s) ==
    IF s # << >> /\ Head(s) = 46 THEN TrimLeft(Tail(s)) ELSE s

RECURSIVE TrimRight(_)
TrimRight(s) ==
    IF s # << >> /\ s[Len(s)] = 46 THEN TrimRight(SubSeq(s, 1, Len(s) - 1))
    ELSE s

Trim(s) == TrimRight(TrimLeft(s))

\* The loop of parseDomainName from index i with domainName = acc: a
\* length octet, that many octets appended one by one, then a ".".
RECURSIVE ParseLabels(_, _, _)
ParseLabels(qname, i, acc) ==
    IF i >= Len(qname) THEN PANIC
    ELSE IF qname[i + 1] = 0 THEN [panic |-> FALSE, domainName |-> acc]
    ELSE LET domainLen == qname[i + 1] IN
         IF i + domainLen >= Len(qname) THEN PANIC
         ELSE ParseLabels(qname, i + 1 + domainLen,
                  acc \o BytesToString(SubSeq(qname, i + 2, i + 1 + domainLen))
                      \o << 46 >>)

\* DNSMsgQst.parseDomainName.
parseDomainName(qst) ==
    LET r == ParseLabels(qst.QNAME, 0, << >>) IN
    IF r.panic THEN PANIC
    ELSE [panic |-> FALSE, domainName |-> Trim(r.domainName)]

\* ------------------------------------------------------------ the composers

\* composeHdrQst with ANCOUNT written before QDCOUNT.
composeHdrQst_CountsSwapped(hdr, qst) ==
    PutUint16(hdr.ID) \o PutUint16(hdr.FLAGS) \o PutUint16(hdr.ANCOUNT)
        \o PutUint16(hdr.QDCOUNT) \o PutUint16(hdr.NSCOUNT)
        \o PutUint16(hdr.ARCOUNT)
        \o qst.QNAME \o PutUint16(qst.QTYPE) \o PutUint16(qst.QCLASS)

\* composeHdrQst: the six header fields big-endian, then QNAME, QTYPE,
\* QCLASS.
composeHdrQst(hdr, qst) ==
    PutUint16(hdr.ID) \o PutUint16(hdr.FLAGS) \o PutUint16(hdr.QDCOUNT)
        \o PutUint16(hdr.ANCOUNT) \o PutUint16(hdr.NSCOUNT)
        \o PutUint16(hdr.ARCOUNT)
        \o qst.QNAME \o PutUint16(qst.QTYPE) \o PutUint16(qst.QCLASS)

\* composeHdrQstAsr: header and question, then the record's NAME, TYPE,
\* CLASS, TTL, RDLENGTH, RDATA.
composeHdrQstAsr(hdr, qst, asr) ==
    composeHdrQst(hdr, qst)
        \o asr.NAME \o PutUint16(asr.TYPE) \o PutUint16(asr.CLASS)
        \o PutUint32(asr.TTL) \o PutUint16(asr.RDLENGTH) \o asr.RDATA

\* composeHdrQstMultiRR: header and question, then rr as it is.
composeHdrQstMultiRR(hdr, qst, rr) == composeHdrQst(hdr, qst) \o rr

\* ------------------------------------------------------- the answer record

\* strings.Split(s, "."): the parts between the dots (46), one more than
\* there are dots; acc is the part being read.
RECURSIVE SplitFrom(_, _)
SplitFrom(s, acc) ==
    IF s = << >> THEN << acc >>
    ELSE IF Head(s) = 46 THEN << acc >> \o SplitFrom(Tail(s), << >>)
    ELSE SplitFrom(Tail(s), Append(acc, Head(s)))

Split(s) == SplitFrom(s, << >>)

IsDigit(c) == c >= 48 /\ c <= 57

\* strconv.ParseUint(s, 10, 9) on a string of digits: the value, and 511
\* (the largest 9-bit value) as soon as the value exceeds it.
RECURSIVE ParseUintFrom(_, _)
ParseUintFrom(s, n) ==
    IF s = << >> THEN n
    ELSE LET n1 == n * 10 + (Head(s) - 48) IN
         IF n1 > 511 THEN 511 ELSE ParseUintFrom(Tail(s), n1)

\* The value strconv.ParseInt(s, 10, 9) returns, its error being ignored:
\* 0 on a syntax error, 255 or -256 when the number is out of the signed
\* 9-bit range.
ParseInt(s) ==
    LET neg  == s # << >> /\ Head(s) = 45
        rest == IF s # << >> /\ Head(s) \in {43, 45} THEN Tail(s) ELSE s
    IN  IF rest = << >> \/ \E k \in 1..Len(rest) : ~IsDigit(rest[k]) THEN 0
        ELSE LET un == ParseUintFrom(rest, 0) IN
             IF ~neg /\ un >= 256 THEN 255
             ELSE IF neg /\ un > 256 THEN -256
             ELSE IF neg THEN -un ELSE un

\* byte(I) for an int64 I.
ToByte(I) == I % 256

\* createDNSMsgAsr with the octets of RDATA stored last part first.
createDNSMsgAsr_Reversed(asrType, asrClass, asrTTL, asrRDLength, asrRData) ==
    LET address == Split(asrRData) IN
    [NAME     |-> << 192, 12 >>,
     TYPE     |-> asrType,
     CLASS    |-> asrClass,
     TTL      |-> asrTTL,
     RDLENGTH |-> asrRDLength,
     RDATA    |-> [k \in 1..Len(address) |->
                      ToByte(ParseInt(address[Len(address) + 1 - k]))]]

\* createDNSMsgAsr: NAME is the pointer 0xC0 0x0C; RDATA gets one octet per
\* dot-separated part of asrRData, whatever their number.
createDNSMsgAsr(asrType, asrClass, asrTTL, asrRDLength, asrRData) ==
    LET address == Split(asrRData) IN
    [NAME     |-> << 192, 12 >>,
     TYPE     |-> asrType,
     CLASS    |-> asrClass,
     TTL      |-> asrTTL,
     RDLENGTH |-> asrRDLength,
     RDATA    |-> [k \in 1..Len(address) |-> ToByte(ParseInt(address[k]))]]

\* ----------------------------------------------------------- the name table

\* s with its ASCII capitals made small.
ToLower(s) == [k \in 1..Len(s) |-> IF s[k] >= 65 /\ s[k] <= 90 THEN s[k] + 32 ELSE s[k]]

\* getIPAddrByDomainName comparing names without regard to case.
getIPAddrByDomainName_IgnoreCase(hosts, domainNameInput) ==
    LET found == {ip \in DOMAIN hosts : ToLower(hosts[ip]) = ToLower(domainNameInput)} IN
    IF found = {} THEN { << >> } ELSE found

\* getIPAddrByDomainName: the values the call may return.  hosts is a Go map
\* (here a function from address strings to names) and `range' visits its
\* entries in an unspecified order, so the call returns the key of any
\* entry whose name equals the input, and "" when there is none.
getIPAddrByDomainName(hosts, domainNameInput) ==
    LET found == {ip \in DOMAIN hosts : hosts[ip] = domainNameInput} IN
    IF found = {} THEN { << >> } ELSE found

\* ------------------------------------------------- the relay's environment

\* A decimal numeral, and a dotted address string such as "192.168.10.1",
\* as the strings the name table holds.
RECURSIVE Digits(_)
Digits(n) == IF n < 10 THEN << 48 + n >> ELSE Digits(n \div 10) \o << 48 + (n % 10) >>

Dotted(o) ==
    Digits(o[1]) \o << 46 >> \o Digits(o[2]) \o << 46 >> \o Digits(o[3])
        \o << 46 >> \o Digits(o[4])

\* The addresses of the tables below, each as its four octets.
TableOctets ==
    { << 192, 168, 10, 1 >>, << 10, 0, 0, 1 >>, << 255, 255, 255, 255 >>,
      << 127, 0, 0, 1 >>, << 0, 0, 0, 0 >> }

\* A map[string]string from its entries << address, name >>.
HostsOf(entries) ==
    [ip \in {e[1] : e \in entries} |-> (CHOOSE e \in entries : e[1] = ip)[2]]

\* The name tables initDNSHosts may hand to DNSRelay: keys are address
\* literals, values dotted names ("a.b", "a", "A", and U+00E9 in UTF-8).
\* The second has one name under two addresses, one of them forbidden.
HostsTables ==
    { HostsOf({ << Dotted(<< 192, 168, 10, 1 >>), << 97, 46, 98 >> >>,
                << Dotted(<< 127, 0, 0, 1 >>), << 97 >> >>,
                << Dotted(<< 0, 0, 0, 0 >>), << 195, 169 >> >> }),
      HostsOf({ << Dotted(<< 10, 0, 0, 1 >>), << 97 >> >>,
                << Dotted(<< 127, 0, 0, 1 >>), << 97 >> >>,
                << Dotted(<< 255, 255, 255, 255 >>), << 97, 46, 98 >> >> }),
      HostsOf({ << Dotted(<< 10, 0, 0, 1 >>), << 97, 46, 98 >> >> }) }

\* The addresses requests come from.
Clients == { "client1", "client2" }

\* A question name on the wire: each label behind its length octet, then
\* the zero octet.
RECURSIVE EncodeName(_)
EncodeName(labels) ==
    IF labels = << >> THEN << 0 >>
    ELSE << Len(Head(labels)) >> \o Head(labels) \o EncodeName(Tail(labels))

\* n octets b.
Repeat(b, n) == [k \in 1..n |-> b]

\* The names asked for: "a", "A", "a"."b", the one label "a.b", the label
\* ".a", a label holding a zero octet, the label 0xE9, and the root.
QueryNames ==
    { << << 97 >> >>, << << 65 >> >>, << << 97 >>, << 98 >> >>,
      << << 97, 46, 98 >> >>, << << 46, 97 >> >>, << << 97, 0 >> >>,
      << << 233 >> >>, << >> }

\* QTYPE and QCLASS asked for: A/IN, and AAAA/CH.
QueryTypes == { << 1, 1 >>, << 28, 3 >> }

RequestIDs == { 27372, 65535 }

\* An OPT record, as a query carries one in its additional section.
OPTRecord == << 0, 0, 41, 16, 0, 0, 0, 0, 0, 0, 0 >>

Header(id, flags, counts) ==
    PutUint16(id) \o PutUint16(flags) \o PutUint16(counts[1])
        \o PutUint16(counts[2]) \o PutUint16(counts[3]) \o PutUint16(counts[4])

\* Datagrams that are a header and a whole question: plain queries, and
\* queries with ARCOUNT = 1 and an OPT record behind the question.
WellFormedRequests ==
    { Header(id, 256, << 1, 0, 0, 0 >>) \o EncodeName(n) \o PutUint16(q[1])
          \o PutUint16(q[2]) :
      id \in RequestIDs, n \in QueryNames, q \in QueryTypes }
    \cup
    { Header(27372, 256, << 1, 0, 0, 1 >>) \o EncodeName(n) \o PutUint16(1)
          \o PutUint16(1) \o OPTRecord :
      n \in QueryNames }

\* Datagrams that are not: a length octet running past the end of the name;
\* fewer octets than a header; a name cut before its terminator; no zero
\* octet in the whole buffer; the terminator so late that QTYPE and QCLASS
\* do not fit.
MalformedRequests ==
    { Header(27372, 256, << 1, 0, 0, 0 >>) \o << 5, 97, 0, 0, 1, 0, 1 >>,
      << 106, 236, 1, 0, 0 >>,
      Header(27372, 256, << 1, 0, 0, 0 >>) \o << 1, 97 >>,
      Header(27372, 256, << 1, 0, 0, 0 >>) \o Repeat(97, 500),
      Header(27372, 256, << 1, 0, 0, 0 >>) \o Repeat(97, 497) \o << 0, 0, 1 >> }

Requests == WellFormedRequests \cup MalformedRequests

\* An A record of a reply, and a reply datagram.
ARecord == << 192, 12, 0, 1, 0, 1, 0, 0, 0, 60, 0, 4, 93, 184, 216, 34 >>

RECURSIVE Records(_)
Records(n) == IF n = 0 THEN << >> ELSE ARecord \o Records(n - 1)

Reply(id, question, n) ==
    Header(id, 33152, << 1, n, 0, 0 >>) \o question \o Records(n)

\* What the upstream may answer to the query `relay': the answer to it (no
\* record, one record, and twenty records, which is more than the reply
\* buffer holds), and an answer to it under another ID.
Answers(relay) ==
    LET id       == Uint16(relay[1], relay[2])
        question == SubSeq(relay, 13, Len(relay))
    IN  { Reply(id, question, 0), Reply(id, question, 1), Reply(id, question, 20),
          Reply((id + 7) % 65536, question, 1) }

\* The queries the upstream answers a second time, later: those for a plain
\* A/IN question that the relay forwards under the ID 0x6AED.
AnsweredTwice ==
    { Header(27373, 256, << 1, 0, 0, 0 >>) \o EncodeName(n) \o << 0, 1, 0, 1 >> :
      n \in QueryNames }

\* What may arrive on the upstream socket whatever was sent: an answer to
\* another question under another ID, and octets with no zero among them.
Unsolicited ==
    { Reply(4660, EncodeName(<< << 122 >> >>) \o << 0, 1, 0, 1 >>, 1),
      Header(4660, 33152, << 1, 1, 0, 0 >>) \o Repeat(97, 300) }

\* ---------------------------------------------------------------- the state

VARIABLES
    pc,        \* where DNSRelay is: "read" (at ReadFrom), "awaitUpstream"
               \* (in conn.Read of communicateWithForwardDNS), "panicked"
               \* (ended by a run-time panic), "exited" (ended by os.Exit)
    hosts,     \* the name table, read-only after start
    served,    \* requests read so far
    pkt,       \* the datagram of the request being served
    addr,      \* the address it came from
    path,      \* the branch taken for it: "none", "forward", "negative", "local"
    targetDomainName,  \* the name parsed from it
    targetIP,  \* what getIPAddrByDomainName returned for that name
    relay,     \* the octets written to the upstream socket for it
    sendErr,   \* whether that write failed
    reply,     \* the datagram read from the upstream socket for it
    recvErr,   \* whether that read failed
    written,   \* the WriteTo calls made for it: [to, data]
    earlier,   \* the query written to the upstream socket for a request
               \* before it that the upstream may still answer (none, or one)
    call,      \* codec run: the function applied and its argument
    ret        \* codec run: what it returned

relayVars == << pc, hosts, served, pkt, addr, path, targetDomainName, targetIP,
                relay, sendErr, reply, recvErr, written, earlier >>
codecVars == << call, ret >>
vars == << pc, hosts, served, pkt, addr, path, targetDomainName, targetIP,
           relay, sendErr, reply, recvErr, written, earlier, call, ret >>

NoCall == [fn |-> "none", arg |-> << >>]
NoRet == [done |-> FALSE]

\* DNSRelay before its first ReadFrom, with the table initDNSHosts built.
Init ==
    /\ pc = "read"
    /\ hosts \in HostsTables
    /\ served = 0
    /\ pkt = << >>
    /\ addr = "nobody"
    /\ path = "none"
    /\ targetDomainName = << >>
    /\ targetIP = << >>
    /\ relay = << >>
    /\ sendErr = FALSE
    /\ reply = << >>
    /\ recvErr = FALSE
    /\ written = << >>
    /\ earlier = {}
    /\ call = NoCall
    /\ ret = NoRet

\* ------------------------------------------------------------ the relay loop

\* buf := make([]byte, 512); ReadFrom(buf); parseDNSRequest(buf).
Request(d) == parseDNSRequest(ReadInto(make(RequestBufLen), d))

\* parseDNSRequest(buf) and parseDomainName together: the parsed request
\* with its name, or a panic of either.
Parsed(d) ==
    LET r == Request(d) IN
    IF r.panic THEN PANIC
    ELSE LET n == parseDomainName(r.qst) IN
         IF n.panic THEN PANIC
         ELSE [panic |-> FALSE, hdr |-> r.hdr, qst |-> r.qst,
               domainName |-> n.domainName]

\* Every datagram a client may send, with what the relay parses from it
\* (worked out once for the whole run).
ParsedRequests == { [d |-> d, p |-> Parsed(d)] : d \in Requests }

\* The branch DNSRelay takes on targetIP.
Branch(ip) ==
    IF Len(ip) = 0 THEN "forward"
    ELSE IF ip = Dotted(<< 127, 0, 0, 1 >>) \/ ip = Dotted(<< 0, 0, 0, 0 >>)
         THEN "negative"
    ELSE "local"

\* The header of the negative answer with the flags of the local answer.
NegativeHdr_NoErrorFlags(dnsMsgHdr) == [dnsMsgHdr EXCEPT !.FLAGS = 33152]

\* The header of the negative answer and of the local answer: ID and counts
\* of the request, flags 0x8183 and 0x8180.
NegativeHdr(dnsMsgHdr) == [dnsMsgHdr EXCEPT !.FLAGS = 33155]
LocalHdr(dnsMsgHdr) == [dnsMsgHdr EXCEPT !.FLAGS = 33152]

\* The record of the local answer: createDNSMsgAsr(1, 1, 31, 4, targetIP).
LocalAsr(dnsMsgQst, ip) == createDNSMsgAsr(1, 1, 31, 4, ip)

\* The query sent upstream under the request's own ID.
ForwardQuery_SameID(hdr, qst) == composeHdrQst(hdr, qst)

\* communicateWithForwardDNS up to conn.Write: the query sent upstream.
ForwardQuery(hdr, qst) ==
    composeHdrQst([hdr EXCEPT !.ID = (hdr.ID + 1) % 65536], qst)

\* What one iteration sets when it reads datagram d from a.
Reads(d, a) ==
    /\ served' = served + 1
    /\ pkt' = d
    /\ addr' = a
    /\ reply' = << >>
    /\ recvErr' = FALSE
    /\ earlier' = IF relay \in AnsweredTwice /\ ~sendErr THEN { relay }
                  ELSE earlier
    /\ UNCHANGED << hosts, call, ret >>

\* ReadFrom fails: checkError(..., true) ends the process.
ReadFromFails ==
    /\ pc = "read"
    /\ served < MaxRequests
    /\ pc' = "exited"
    /\ UNCHANGED << hosts, served, pkt, addr, path, targetDomainName, targetIP,
                    relay, sendErr, reply, recvErr, written, earlier, call,
                    ret >>

\* An iteration on datagram d, r being what is parsed from d, that panics in
\* parseDNSRequest or parseDomainName.
ServePanics(d, r) ==
    /\ pc = "read"
    /\ served < MaxRequests
    /\ r.panic
    /\ \E a \in Clients : Reads(d, a)
    /\ pc' = "panicked"
    /\ path' = "none"
    /\ targetDomainName' = << >>
    /\ targetIP' = << >>
    /\ relay' = << >>
    /\ sendErr' = FALSE
    /\ written' = << >>

\* An iteration on the local-answer branch (the error of its WriteTo is not
\* looked at).
ServeLocal(d, r) ==
    /\ pc = "read"
    /\ served < MaxRequests
    /\ ~r.panic
    /\ \E ip \in getIPAddrByDomainName(hosts, r.domainName) :
          /\ Branch(ip) = "local"
          /\ targetIP' = ip
          /\ \E a \in Clients :
                /\ Reads(d, a)
                /\ written' = << [to   |-> a,
                                  data |-> composeHdrQstAsr(LocalHdr(r.hdr), r.qst,
                                                            LocalAsr(r.qst, ip))] >>
    /\ targetDomainName' = r.domainName
    /\ path' = "local"
    /\ pc' = "read"
    /\ relay' = << >>
    /\ sendErr' = FALSE

\* An iteration on the negative-answer branch.
ServeNegative(d, r) ==
    /\ pc = "read"
    /\ served < MaxRequests
    /\ ~r.panic
    /\ \E ip \in getIPAddrByDomainName(hosts, r.domainName) :
          /\ Branch(ip) = "negative"
          /\ targetIP' = ip
          /\ \E a \in Clients :
                /\ Reads(d, a)
                /\ written' = << [to   |-> a,
                                  data |-> composeHdrQst(NegativeHdr(r.hdr), r.qst)] >>
    /\ targetDomainName' = r.domainName
    /\ path' = "negative"
    /\ pc' = "read"
    /\ relay' = << >>
    /\ sendErr' = FALSE

\* The forward branch going back to ReadFrom once the query is sent, without
\* waiting in conn.Read.
ServeForward_NotBlocking(d, r) ==
    /\ pc = "read"
    /\ served < MaxRequests
    /\ ~r.panic
    /\ \E ip \in getIPAddrByDomainName(hosts, r.domainName) :
          /\ Branch(ip) = "forward"
          /\ targetIP' = ip
    /\ \E a \in Clients : Reads(d, a)
    /\ \E sent \in BOOLEAN : sendErr' = ~sent
    /\ targetDomainName' = r.domainName
    /\ relay' = ForwardQuery(r.hdr, r.qst)
    /\ written' = << >>
    /\ path' = "forward"
    /\ pc' = "read"

\* An iteration on the forward branch, up to the conn.Read it blocks in;
\* sent is whether conn.Write succeeded (its error is only printed).
ServeForward(d, r) ==
    /\ pc = "read"
    /\ served < MaxRequests
    /\ ~r.panic
    /\ \E ip \in getIPAddrByDomainName(hosts, r.domainName) :
          /\ Branch(ip) = "forward"
          /\ targetIP' = ip
    /\ \E a \in Clients : Reads(d, a)
    /\ \E sent \in BOOLEAN : sendErr' = ~sent
    /\ targetDomainName' = r.domainName
    /\ relay' = ForwardQuery(r.hdr, r.qst)
    /\ written' = << >>
    /\ path' = "forward"
    /\ pc' = "awaitUpstream"

\* The rest of the forward branch once conn.Read returned with resp as the
\* reply buffer: parse it, take one off the ID, append resp[length:], write
\* to the requester; a failed WriteTo ends the process.
ForwardedResponse(resp) ==
    LET p == parseDNSRequest(resp) IN
    composeHdrQstMultiRR([p.hdr EXCEPT !.ID = (p.hdr.ID - 1) % 65536], p.qst,
                         Octets(resp, p.length, resp.len))

Delivers(resp, ok) ==
    /\ ~parseDNSRequest(resp).panic
    /\ written' = << [to |-> addr, data |-> ForwardedResponse(resp)] >>
    /\ pc' = IF ok THEN "read" ELSE "exited"

\* The second answer to the query of an earlier request.
Late ==
    { Reply(Uint16(q[1], q[2]), SubSeq(q, 13, Len(q)), 1) : q \in earlier }

\* The datagrams conn.Read may return now: a query that was not sent gets
\* no answer.
Arriving ==
    IF pc # "awaitUpstream" THEN {}
    ELSE IF sendErr THEN Unsolicited \cup Late
    ELSE Answers(relay) \cup Unsolicited \cup Late

\* conn.Read returns the datagram r, which parses.
UpstreamReplies(r) ==
    /\ pc = "awaitUpstream"
    /\ reply' = r
    /\ recvErr' = FALSE
    /\ \E ok \in BOOLEAN : Delivers(ReadInto(make(ReplyBufLen), r), ok)
    /\ UNCHANGED << hosts, served, pkt, addr, path, targetDomainName, targetIP,
                    relay, sendErr, earlier, call, ret >>

\* conn.Read returns the datagram r, whose parse panics.
UpstreamReplyPanics(r) ==
    /\ pc = "awaitUpstream"
    /\ parseDNSRequest(ReadInto(make(ReplyBufLen), r)).panic
    /\ reply' = r
    /\ recvErr' = FALSE
    /\ pc' = "panicked"
    /\ UNCHANGED << hosts, served, pkt, addr, path, targetDomainName, targetIP,
                    relay, sendErr, written, earlier, call, ret >>

\* conn.Read fails: the error is printed and resp is still all zeros.
UpstreamReadFails ==
    /\ pc = "awaitUpstream"
    /\ reply' = << >>
    /\ recvErr' = TRUE
    /\ \E ok \in BOOLEAN : Delivers(make(ReplyBufLen), ok)
    /\ UNCHANGED << hosts, served, pkt, addr, path, targetDomainName, targetIP,
                    relay, sendErr, earlier, call, ret >>

Next ==
    \/ ReadFromFails
    \/ \E x \in ParsedRequests : ServePanics(x.d, x.p)
    \/ \E x \in ParsedRequests : ServeLocal(x.d, x.p)
    \/ \E x \in ParsedRequests : ServeNegative(x.d, x.p)
    \/ \E x \in ParsedRequests : ServeForward(x.d, x.p)
    \/ \E r \in Arriving : UpstreamReplies(r)
    \/ \E r \in Arriving : UpstreamReplyPanics(r)
    \/ UpstreamReadFails

Spec == Init /\ [][Next]_vars

\* ------------------------------------------------------------ the codec runs

\* The codec functions applied on their own, as main_test.go applies them:
\* a run picks one function and one argument, and applies it once.

\* Sequences over S of length lo..hi.
SeqsOf(S, lo, hi) == UNION { [1..k -> S] : k \in lo..hi }

\* s[1] \o sep \o s[2] \o ... for a sequence s of strings.
RECURSIVE Join(_, _)
Join(s, sep) ==
    IF s = << >> THEN << >>
    ELSE IF Len(s) = 1 THEN s[1]
    ELSE s[1] \o sep \o Join(Tail(s), sep)

\* Parts of an address string: "1", "255", "256", "-1", "x".
AddressParts ==
    { << 49 >>, << 50, 53, 53 >>, << 50, 53, 54 >>, << 45, 49 >>, << 120 >> }

\* Address strings: up to MaxParts parts joined by dots, and the address of
\* TestCreateDNSMsgAsr.
AddressInputs ==
    SeqsOf(AddressParts, 1, MaxParts)
        \cup { << Digits(192), Digits(168), Digits(10), Digits(1) >> }

\* Octets of a label: 'a', '.', and the zero octet.
LabelOctets == { 97, 46, 0 }

\* Question names: up to MaxLabels labels of up to MaxLabelLen octets, and
\* "google"."com" of the tests.
NameInputs ==
    SeqsOf(SeqsOf(LabelOctets, 1, MaxLabelLen), 0, MaxLabels)
        \cup { << << 103, 111, 111, 103, 108, 101 >>, << 99, 111, 109 >> >> }

\* The message of TestParseDNSRequest around the name `labels'.
TestMessage(labels) ==
    Header(27372, 33152, << 1, 1, 0, 0 >>) \o EncodeName(labels)
        \o << 0, 0, 0, 1 >>

\* Headers of the messages parsed: the one of TestParseDNSRequest, all
\* zeros, all ones, and one whose twelve octets all differ.
CodecHeaders ==
    { << 27372, 33152, 1, 1, 0, 0 >>, << 0, 0, 0, 0, 0, 0 >>,
      << 65535, 65535, 65535, 65535, 65535, 65535 >>,
      << 258, 772, 1286, 1800, 2314, 2828 >> }

\* What stands behind the name in them: QTYPE and QCLASS alone, and with
\* a record after them.
CodecTails == { << 0, 1, 0, 1 >>, << 0, 28, 0, 3 >> \o OPTRecord }

\* A message with header h, the name `labels' and the tail t.
Message(h, labels, t) ==
    Header(h[1], h[2], << h[3], h[4], h[5], h[6] >>) \o EncodeName(labels) \o t

\* The FLAGS words decoded: every 16-bit word.
FlagsWords == 0..65535

\* The header of TestParseFlags with FLAGS = w.
TestHdr(w) ==
    [ID |-> 0, FLAGS |-> w, QDCOUNT |-> 0, ANCOUNT |-> 0, NSCOUNT |-> 0,
     ARCOUNT |-> 0]

\* hdr.parseFlags() on the header of TestParseFlags with FLAGS = w.
FlagsCall(w) == [fn |-> "parseFlags", parts |-> << >>, arg |-> TestHdr(w)]

CodecCalls ==
    { [fn |-> "createDNSMsgAsr", parts |-> a, arg |-> Join(a, << 46 >>)] :
      a \in AddressInputs }
    \cup
    { [fn |-> "parseDNSRequest", parts |-> n, arg |-> TestMessage(n)] :
      n \in NameInputs }
    \cup
    { [fn |-> "parseDNSRequest", parts |-> n, arg |-> Message(h, n, t)] :
      h \in CodecHeaders, n \in QueryNames, t \in CodecTails }

InitCodec ==
    /\ pc = "codec"
    /\ hosts = HostsOf({})
    /\ served = 0
    /\ pkt = << >>
    /\ addr = "nobody"
    /\ path = "none"
    /\ targetDomainName = << >>
    /\ targetIP = << >>
    /\ relay = << >>
    /\ sendErr = FALSE
    /\ reply = << >>
    /\ recvErr = FALSE
    /\ written = << >>
    /\ earlier = {}
    /\ \/ call \in CodecCalls
       \/ \E w \in FlagsWords : call = FlagsCall(w)
    /\ ret = NoRet

\* createDNSMsgAsr(1, 1, 31, 4, arg), as DNSRelay calls it.  The function
\* has no error result and nothing in it can panic.
CallCreateDNSMsgAsr ==
    /\ call.fn = "createDNSMsgAsr"
    /\ ~ret.done
    /\ ret' = [done |-> TRUE, panic |-> FALSE,
               asr |-> createDNSMsgAsr(1, 1, 31, 4, call.arg)]
    /\ UNCHANGED << relayVars, call >>

\* parseDNSRequest(arg), then parseDomainName on its question.
CallParseDNSRequest ==
    /\ call.fn = "parseDNSRequest"
    /\ ~ret.done
    /\ LET r == parseDNSRequest(FromBytes(call.arg)) IN
       ret' = [done |-> TRUE, panic |-> r.panic, request |-> r,
               name |-> IF r.panic THEN PANIC ELSE parseDomainName(r.qst)]
    /\ UNCHANGED << relayVars, call >>

\* hdr.parseFlags() on the header arg.
CallParseFlags ==
    /\ call.fn = "parseFlags"
    /\ ~ret.done
    /\ ret' = [done |-> TRUE, panic |-> FALSE, flags |-> parseFlags(call.arg)]
    /\ UNCHANGED << relayVars, call >>

NextCodec == CallCreateDNSMsgAsr \/ CallParseDNSRequest \/ CallParseFlags

SpecCodec == InitCodec /\ [][NextCodec]_vars

\* ------------------------------------------------------------------- claims

\* Octet i (from 1) of the request buffer: the datagram, then zeros.
Buf(i) == IF i <= Len(pkt) THEN pkt[i] ELSE 0

\* Where the question name that starts at octet i of the request buffer
\* ends, walking it label by label: the position of its zero octet.
RECURSIVE NameEnd(_)
NameEnd(i) == IF Buf(i) = 0 THEN i ELSE NameEnd(i + 1 + Buf(i))

\* The request's question as it stands in the buffer: QNAME, QTYPE, QCLASS.
RequestQuestion == [k \in 1..(NameEnd(13) - 12 + 4) |-> Buf(12 + k)]

\* The addresses the relay answers negatively.
Forbidden == { Dotted(<< 127, 0, 0, 1 >>), Dotted(<< 0, 0, 0, 0 >>) }

\* The table entries whose name is the queried name.
Matching == { ip \in DOMAIN hosts : hosts[ip] = targetDomainName }

\* The response written for the request being served.
Response == written[1].data

\* C1: on the forward path, the response written to the requester carries
\* the request's transaction ID whatever ID the upstream's reply carries.
C1_ForwardKeepsRequestID ==
    (path = "forward" /\ pkt \in WellFormedRequests /\ ~sendErr /\ ~recvErr
        /\ written # << >>)
        => << Response[1], Response[2] >> = << Buf(1), Buf(2) >>

\* C2: for a datagram that cannot be parsed the relay writes no response,
\* does not terminate, and is back at reading the next request.
C2_ParseFailureIsRequestScoped ==
    pkt \in MalformedRequests
        => (pc \notin { "panicked", "awaitUpstream" } /\ written = << >>)

\* C3: when the send to or the receive from the upstream fails, no response
\* is written for that request and the relay does not terminate.
C3_UpstreamFailureIsRequestScoped ==
    (path = "forward" /\ pkt \in WellFormedRequests /\ (sendErr \/ recvErr))
        => (written = << >> /\ pc # "panicked")

\* C4: once the relay is done with a parsed request (it is back at reading,
\* or has ended), it has written exactly one response for it, and every
\* response it writes goes to the address the request came from.  (Stated
\* for whole requests whose forward, if any, met no send or receive error.)
C4_ExactlyOneResponse ==
    /\ \A k \in 1..Len(written) : written[k].to = addr
    /\ (path # "none" /\ pkt \in WellFormedRequests /\ ~sendErr /\ ~recvErr
           /\ pc \in { "read", "panicked", "exited" })
          => Len(written) = 1

\* C5: a request is forwarded exactly when no table entry has the queried
\* name (compared octet for octet); otherwise it is answered negatively
\* when the entry found has address 127.0.0.1 or 0.0.0.0 and locally when
\* it has any other address.
C5_PathSelection ==
    path # "none"
        => /\ (path = "forward") <=> (Matching = {})
           /\ path = "negative" => (targetIP \in Matching /\ targetIP \in Forbidden)
           /\ path = "local" => (targetIP \in Matching /\ targetIP \notin Forbidden)

\* C5 witness: a query for "A" was forwarded although the table has "a",
\* and it is the second request served.
C5_Witness ==
    /\ path = "forward"
    /\ targetDomainName = << 65 >>
    /\ \E ip \in DOMAIN hosts : hosts[ip] = << 97 >>
    /\ served = 2

\* C6: the local answer is the request's ID, flags 0x8180, the request's
\* counts and question, then one record: the pointer 0xC0 0x0C, ten octets
\* of TYPE, CLASS, TTL and RDLENGTH = 4, and the four octets of the
\* address a.b.c.d of the entry found.
C6_LocalAnswer ==
    path = "local"
        => \E o \in TableOctets :
              /\ targetIP = Dotted(o)
              /\ LET q == Len(RequestQuestion) IN
                 /\ Len(Response) = 12 + q + 16
                 /\ SubSeq(Response, 1, 12) =
                       << Buf(1), Buf(2), 129, 128 >> \o [k \in 1..8 |-> Buf(4 + k)]
                 /\ SubSeq(Response, 13, 12 + q) = RequestQuestion
                 /\ SubSeq(Response, 13 + q, 14 + q) = << 192, 12 >>
                 /\ SubSeq(Response, 23 + q, 24 + q) = << 0, 4 >>
                 /\ SubSeq(Response, 25 + q, 28 + q) = o

\* C6 witness: "a.b" was answered from the entry 192.168.10.1.
C6_Witness ==
    /\ path = "local"
    /\ targetIP = Dotted(<< 192, 168, 10, 1 >>)
    /\ SubSeq(Response, Len(Response) - 3, Len(Response)) = << 192, 168, 10, 1 >>

\* C7: the negative answer is the request's header with flags 0x8183 (ID
\* and the four counts unchanged) and the request's question, and nothing
\* after them.
C7_NegativeAnswer ==
    path = "negative"
        => Response = << Buf(1), Buf(2), 129, 131 >> \o [k \in 1..8 |-> Buf(4 + k)]
                          \o RequestQuestion

\* C7 witness: a query with ARCOUNT = 1 was answered negatively from the
\* entry 0.0.0.0.
C7_Witness ==
    /\ path = "negative"
    /\ targetIP = Dotted(<< 0, 0, 0, 0 >>)
    /\ Buf(12) = 1
    /\ Response[4] = 131

\* C8: in a local answer the record's TYPE and CLASS are the request's
\* QTYPE and QCLASS, and its TTL is one fixed value (31).
C8_AnswerTypeFollowsQuery ==
    path = "local"
        => LET q == Len(RequestQuestion) IN
           /\ SubSeq(Response, 15 + q, 18 + q) = SubSeq(RequestQuestion, q - 3, q)
           /\ SubSeq(Response, 19 + q, 22 + q) = << 0, 0, 0, 31 >>

\* The strings "0" .. "255".
OctetNumerals == { Digits(n) : n \in 0..255 }

\* C9: createDNSMsgAsr on a string that is not four dot-separated integers
\* in 0..255 fails and yields no record.
C9_InvalidAddressRejected ==
    (call.fn = "createDNSMsgAsr" /\ ret.done
        /\ ~(Len(call.parts) = 4
             /\ \A k \in 1..Len(call.parts) : call.parts[k] \in OctetNumerals))
        => ret.panic

\* C10: for a question name made of length-prefixed labels and a zero
\* octet, the parsed name is the labels joined by '.', and the length
\* parseDNSRequest returns is 12 + the name's length on the wire + 4.
C10_QuestionParse ==
    (call.fn = "parseDNSRequest" /\ ret.done)
        => /\ ~ret.panic
           /\ ret.request.length = 12 + Len(EncodeName(call.parts)) + 4
           /\ ~ret.name.panic
           /\ ret.name.domainName = Join(call.parts, << 46 >>)

\* The FLAGS word with the fields of f at their positions: QR at bit 15,
\* Opcode at bits 14..11, AA 10, TC 9, RD 8, RA 7, Z 6, AD 5, CD 4, RCODE at
\* bits 3..0.
PackFlags(f) ==
    f.QR * 32768 + f.Opcode * 2048 + f.AA * 1024 + f.TC * 512 + f.RD * 256
        + f.RA * 128 + f.Z * 64 + f.AD * 32 + f.CD * 16 + f.RCODE

\* Bits hi..lo of the word w.
Bits(w, hi, lo) == (w \div (2 ^ lo)) % (2 ^ (hi - lo + 1))

\* C11: for every 16-bit FLAGS word w, parseFlags gives QR = bit 15,
\* Opcode = bits 14..11, AA = bit 10, TC = bit 9, RD = bit 8, RA = bit 7,
\* Z = bit 6, AD = bit 5, CD = bit 4, RCODE = bits 3..0; packing the fields
\* back at those positions gives w; and 0x8180 decodes to QR = 1, RD = 1,
\* RA = 1 with every other field 0.
C11_FlagsLayoutAndRoundTrip ==
    (call.fn = "parseFlags" /\ ret.done) =>
        LET w == call.arg.FLAGS
            f == ret.flags
        IN  /\ f = [QR |-> Bits(w, 15, 15), Opcode |-> Bits(w, 14, 11),
                    AA |-> Bits(w, 10, 10), TC |-> Bits(w, 9, 9),
                    RD |-> Bits(w, 8, 8), RA |-> Bits(w, 7, 7),
                    Z |-> Bits(w, 6, 6), AD |-> Bits(w, 5, 5),
                    CD |-> Bits(w, 4, 4), RCODE |-> Bits(w, 3, 0)]
            /\ PackFlags(f) = w
            /\ w = 33152 =>
                   f = [QR |-> 1, Opcode |-> 0, AA |-> 0, TC |-> 0, RD |-> 1,
                        RA |-> 1, Z |-> 0, AD |-> 0, CD |-> 0, RCODE |-> 0]

\* 0x8180 has been decoded.
C11_Witness ==
    /\ call.fn = "parseFlags"
    /\ ret.done
    /\ call.arg.FLAGS = 33152
    /\ ret.flags.QR = 1
    /\ ret.flags.RCODE = 0

\* C12: for every message that starts with a 12-octet header and a whole
\* question, parseDNSRequest succeeds and composeHdrQst of the header and
\* question it returns is the first `length' octets of the message, octet
\* for octet, `length' being the length it returns.
C12_HeaderQuestionRoundTrip ==
    (call.fn = "parseDNSRequest" /\ ret.done) =>
        /\ ~ret.panic
        /\ ret.request.length <= Len(call.arg)
        /\ composeHdrQst(ret.request.hdr, ret.request.qst)
               = SubSeq(call.arg, 1, ret.request.length)

\* The message whose twelve header octets all differ, with a two-label
\* name and a record behind the question, has been parsed and composed.
C12_Witness ==
    /\ call.fn = "parseDNSRequest"
    /\ ret.done
    /\ ~ret.panic
    /\ call.parts = << << 97 >>, << 98 >> >>
    /\ ret.request.hdr.ARCOUNT = 2828
    /\ ret.request.length = 21
    /\ Len(call.arg) > 21

\* C13: the relay reads request n+1 only after a response to request n was
\* handed to WriteTo; while a forwarded query awaits its reply no request is
\* read and no further query is sent, and the relay leaves that wait or
\* writes a response only through conn.Read returning (a datagram or an
\* error): with no reply, no later request is read or answered.
C13_SequentialBlockingForward ==
    [][ /\ (served' # served /\ served > 0) => (pc = "read" /\ Len(written) = 1)
        /\ pc = "awaitUpstream" =>
               /\ served' = served
               /\ pkt' = pkt
               /\ relay' = relay
               /\ (pc' # pc \/ written' # written) => (reply' # << >> \/ recvErr')
      ]_vars

\* A second request was answered from the table after the first had been
\* forwarded and its response delivered.
C13_Witness ==
    /\ served = 2
    /\ path = "local"
    /\ earlier # {}
    /\ Len(written) = 1

\* C14: the octets sent upstream are the request's header and question with
\* every field as it was except the ID, which is the request's ID plus one
\* modulo 2^16; and when the reply carries the forwarded ID, the response
\* carries the request's ID, the wrap-around values included.
C14_ForwardIDArithmetic ==
    path = "forward" =>
        /\ relay = PutUint16((Uint16(Buf(1), Buf(2)) + 1) % 65536)
                       \o [k \in 1..10 |-> Buf(2 + k)] \o RequestQuestion
        /\ (written # << >> /\ ~recvErr
               /\ << reply[1], reply[2] >> = << relay[1], relay[2] >>)
              => << Response[1], Response[2] >> = << Buf(1), Buf(2) >>

\* A request with ID 0xFFFF was forwarded as 0x0000, answered under 0x0000
\* and its response delivered under 0xFFFF.
C14_Witness ==
    /\ path = "forward"
    /\ << Buf(1), Buf(2) >> = << 255, 255 >>
    /\ << relay[1], relay[2] >> = << 0, 0 >>
    /\ written # << >>
    /\ ~recvErr
    /\ << reply[1], reply[2] >> = << 0, 0 >>
    /\ << Response[1], Response[2] >> = << 255, 255 >>

\* C15: the response to a forwarded request is the upstream reply (every
\* reply here has at most 512 octets) with one taken off its ID: header,
\* question and every octet after the question, nothing dropped and nothing
\* appended.
C15_OpaquePassThrough ==
    (path = "forward" /\ written # << >> /\ ~recvErr) =>
        Response = PutUint16((Uint16(reply[1], reply[2]) - 1) % 65536)
                       \o SubSeq(reply, 3, Len(reply))

\* C16: the response to a forwarded request is built from a reply to that
\* request: the reply carries the ID the relay forwarded and the question
\* it forwarded, so it is never the reply to an earlier request's query.
C16_ReplyCorrelation ==
    (path = "forward" /\ written # << >> /\ ~recvErr) =>
        /\ ~sendErr
        /\ Len(reply) >= Len(relay)
        /\ SubSeq(reply, 1, 2) = SubSeq(relay, 1, 2)
        /\ SubSeq(reply, 13, Len(relay)) = SubSeq(relay, 13, Len(relay))

\* What the relay does with the request being served when the lookup
\* returns ip: the branch, and the octets it writes (to the requester on
\* the local and negative branches, to the upstream on the forward branch).
Outcome(ip) ==
    LET r == Parsed(pkt) IN
    IF Branch(ip) = "local"
    THEN [path |-> "local",
          data |-> composeHdrQstAsr(LocalHdr(r.hdr), r.qst, LocalAsr(r.qst, ip))]
    ELSE IF Branch(ip) = "negative"
    THEN [path |-> "negative", data |-> composeHdrQst(NegativeHdr(r.hdr), r.qst)]
    ELSE [path |-> "forward", data |-> ForwardQuery(r.hdr, r.qst)]

\* C17: for the table and the request at hand, everything the lookup may
\* return leads to the branch taken and to the octets written, also when
\* several entries carry the queried name.
C17_DeterministicResolution ==
    path # "none" =>
        \A ip \in getIPAddrByDomainName(hosts, targetDomainName) :
            Outcome(ip) = Outcome(targetIP)

\* C18: in a response the relay composes itself ANCOUNT is the number of
\* answer records in it (1 on the local branch, 0 on the negative branch)
\* and NSCOUNT and ARCOUNT are 0, as no such record is in it.
C18_SectionCounts ==
    path \in { "local", "negative" } =>
        /\ << Response[7], Response[8] >>
               = << 0, IF path = "local" THEN 1 ELSE 0 >>
        /\ << Response[9], Response[10], Response[11], Response[12] >>
               = << 0, 0, 0, 0 >>

====
